---- MODULE Spec2Model ----
(***************************************************************************)
(* Model of the customer resource of the Customer Success Platform: the    *)
(* module-level array `customers` (models/Customer.ts) and the three       *)
(* Express handlers of routes/customerRoutes.ts that read and append to it.*)
(*                                                                         *)
(* Node runs every handler to completion on one thread and none of the     *)
(* handlers awaits anything, so one handler call is one step.  Requests    *)
(* arrive in any order (Receive) and wait in the bag `inflight` until the  *)
(* event loop runs their handler, in any order; `log` records every        *)
(* response sent, in the order the handlers ran.                           *)
(*                                                                         *)
(* uuidv4() draws 122 random bits and the uuid library documents its       *)
(* values as unique; the model takes the stream of values it returns to be *)
(* duplicate-free.  The handlers only compare ids for equality, so the     *)
(* k-th value returned is named Uuid(k).                                   *)
(*                                                                         *)
(* A JavaScript value that may be `undefined` is a sequence: <<>> is       *)
(* undefined, <<v>> is the value v.  A JSON object is a function from the  *)
(* keys it carries to their values.                                        *)
(*                                                                         *)
(* The repository installs express without a version.  Under Express 4     *)
(* express.json() leaves req.body = {} on a request without a body, under  *)
(* Express 5 it leaves req.body undefined; `expressMajor` is the version   *)
(* of the build, fixed for a run.  Both versions answer a body that is not *)
(* JSON with 400 before any route runs, and both catch an exception thrown *)
(* by a synchronous handler and answer 500 (the default error handler).    *)
(* `running` is false once the process has died.                           *)
(***************************************************************************)
EXTENDS Integers, Sequences, FiniteSets, Bags, TLC

VARIABLES customers, uuidCalls, inflight, log, expressMajor, running

vars == <<customers, uuidCalls, inflight, log, expressMajor, running>>

-----------------------------------------------------------------------------
(* Bounds *)

\* Requests received over a run.
MaxRequests == 3
\* Math.random() is drawn from {0/RandRes, ..., (RandRes-1)/RandRes}.
RandRes == 2
\* Length of the arrays the lookup is tried on by itself.
MaxStore == 3

-----------------------------------------------------------------------------
(* Values *)

Undefined == <<>>
Val(v) == <<v>>

\* uuidv4(): the value of the k-th call.
Uuid(k) == "u" \o ToString(k)

\* The values uuidv4() can return in a run, and the path parameters clients
\* send: each of them, and a string that is none of them.
Uuids == {Uuid(k) : k \in 1..MaxRequests}
ParamIds == Uuids \cup {"no-such-id"}

\* Parsed request bodies (req.body after express.json()): a key that the
\* client left out reads as undefined.  The last body carries an id and a
\* healthScore of its own, the score (150, in units of 1/RandRes) out of range.
Bodies ==
    { [name |-> Val("Test Customer"), email |-> Val("test@example.com"),
       id |-> Undefined, healthScore |-> Undefined],
      [name |-> Val(""), email |-> Val(""), id |-> Undefined, healthScore |-> Undefined],
      [name |-> Undefined, email |-> Undefined, id |-> Undefined, healthScore |-> Undefined],
      [name |-> Val("Test Customer"), email |-> Val("test@example.com"),
       id |-> Val(Uuid(1)), healthScore |-> Val(150 * RandRes)] }

NoBody == [name |-> Undefined, email |-> Undefined, id |-> Undefined, healthScore |-> Undefined]

\* The major versions of express the unpinned dependency can resolve to.
ExpressMajors == {4, 5}

\* What a request carries as its body: "json" a JSON object (`body`), "malformed"
\* text that is not JSON under a JSON content type, "none" nothing.
Requests ==
    {[method |-> "GET", route |-> "/", id |-> "", sent |-> "none", body |-> NoBody]}
    \cup {[method |-> "POST", route |-> "/", id |-> "", sent |-> "json", body |-> b] : b \in Bodies}
    \cup {[method |-> "POST", route |-> "/", id |-> "", sent |-> s, body |-> NoBody] :
              s \in {"malformed", "none"}}
    \cup {[method |-> "GET", route |-> "/:id", id |-> p, sent |-> "none", body |-> NoBody] :
              p \in ParamIds}

\* Math.random(): the numerator r of r/RandRes, 0 <= r/RandRes < 1.
MathRandom == 0 .. (RandRes - 1)

-----------------------------------------------------------------------------
(* JSON serialisation of a response body, as the client parses it back *)

\* JSON.stringify drops a property whose value is undefined.
Json(c) ==
    [k \in {"id", "healthScore"} \cup {q \in {"name", "email"} : c[q] # Undefined}
       |-> IF k \in {"name", "email"} THEN c[k][1] ELSE c[k]]

JsonList(store) == [i \in 1..Len(store) |-> Json(store[i])]

-----------------------------------------------------------------------------
(* Handlers *)

\* Mutant: the record is built from the body as sent ({...req.body}), so an
\* id the client supplies replaces the generated one.
NewCustomerFromBody(body, uid, r) ==
    [id |-> IF body.id # Undefined THEN body.id[1] ELSE uid,
     name |-> body.name, email |-> body.email, healthScore |-> r * 100]

\* Mutant: the body is spread over the generated fields
\* ({ id: uuidv4(), healthScore: ..., ...req.body }).
NewCustomerSpread(body, uid, r) ==
    [id |-> IF body.id # Undefined THEN body.id[1] ELSE uid,
     name |-> body.name, email |-> body.email,
     healthScore |-> IF body.healthScore # Undefined THEN body.healthScore[1] ELSE r * 100]

\* Mutant: name and email are swapped.
NewCustomerSwapped(body, uid, r) ==
    [id |-> uid, name |-> body.email, email |-> body.name, healthScore |-> r * 100]

\* Mutant: the score is inverted, 100 - Math.random() * 100.
NewCustomerInverted(body, uid, r) ==
    [id |-> uid, name |-> body.name, email |-> body.email,
     healthScore |-> 100 * RandRes - r * 100]

\* The object literal of router.post: healthScore is Math.random() * 100,
\* kept in units of 1/RandRes.  (In IEEE doubles the product of 100 and the
\* largest value of Math.random() rounds to a number below 100, so the exact
\* product the model computes has the range of the rounded one.)
NewCustomer(body, uid, r) ==
    [id |-> uid, name |-> body.name, email |-> body.email, healthScore |-> r * 100]

\* Mutant: customers.unshift(newCustomer).
Unshift(store, c) == <<c>> \o store

\* Mutant: a record whose email is already stored is not added again.
PushUnlessKnown(store, c) ==
    IF \E i \in 1..Len(store) : store[i].email = c.email THEN store ELSE Append(store, c)

\* Mutant: the store keeps the two newest records only.
PushCapped(store, c) ==
    IF Len(store) >= 2 THEN Append(Tail(store), c) ELSE Append(store, c)

\* customers.push(newCustomer)
Push(store, c) == Append(store, c)

\* Mutant: the scan starts at the second record.
FindFromSecond(store, id) ==
    IF \E i \in 2..Len(store) : store[i].id = id
    THEN CHOOSE i \in 2..Len(store) : store[i].id = id
    ELSE 0

\* Mutant: findIndex's -1 is taken for a position, the last one.
FindOrLast(store, id) ==
    IF \E i \in 1..Len(store) : store[i].id = id
    THEN CHOOSE i \in 1..Len(store) : store[i].id = id
    ELSE Len(store)

\* Mutant: the last match is returned instead of the first.
FindLast(store, id) ==
    IF \E i \in 1..Len(store) : store[i].id = id
    THEN CHOOSE i \in 1..Len(store) :
            /\ store[i].id = id
            /\ \A j \in (i + 1)..Len(store) : store[j].id # id
    ELSE 0

\* customers.find(c => c.id === id): index of the first match, 0 if none.
Find(store, id) ==
    IF \E i \in 1..Len(store) : store[i].id = id
    THEN CHOOSE i \in 1..Len(store) :
            /\ store[i].id = id
            /\ \A j \in 1..(i - 1) : store[j].id # id
    ELSE 0

Respond(req, status, type, body) ==
    log' = Append(log, [req |-> req, status |-> status, type |-> type, body |-> body])

\* req.body is undefined when the handler runs: no body was parsed and the
\* build is Express 5.
BodyUndefined(req) == req.sent = "none" /\ expressMajor = 5

\* Mutant: the exception escapes and the process dies without answering.
OnThrowCrash(req) ==
    /\ running' = FALSE
    /\ UNCHANGED <<customers, uuidCalls, log>>

\* An exception thrown by a handler: express catches it and its default error
\* handler answers 500; nothing the handler had not yet done is done.
OnThrow(req) ==
    /\ Respond(req, 500, "text", "Internal Server Error")
    /\ UNCHANGED <<customers, uuidCalls, running>>

\* Mutant: the array starts with a sample record in it.
InitSeeded ==
    /\ customers = <<[id |-> "no-such-id", name |-> Val("Test Customer"),
                      email |-> Val("test@example.com"), healthScore |-> 0]>>
    /\ uuidCalls = 0
    /\ inflight = EmptyBag
    /\ log = <<>>
    /\ expressMajor \in ExpressMajors
    /\ running = TRUE

\* export const customers: Customer[] = [], and the server listening.
Init ==
    /\ customers = <<>>
    /\ uuidCalls = 0
    /\ inflight = EmptyBag
    /\ log = <<>>
    /\ expressMajor \in ExpressMajors
    /\ running = TRUE

\* A request reaches the server.
Receive(req) ==
    /\ running
    /\ Len(log) + BagCardinality(inflight) < MaxRequests
    /\ inflight' = inflight (+) SetToBag({req})
    /\ UNCHANGED <<customers, uuidCalls, log, expressMajor, running>>

\* Mutant: a body that does not parse is passed on as an empty object.
ParseLeniently(req) ==
    /\ running
    /\ req.sent = "malformed"
    /\ \E r \in MathRandom :
         LET newCustomer == NewCustomer(NoBody, Uuid(uuidCalls + 1), r) IN
           /\ uuidCalls' = uuidCalls + 1
           /\ customers' = Push(customers, newCustomer)
           /\ Respond(req, 201, "json", Json(newCustomer))
    /\ inflight' = inflight (-) SetToBag({req})
    /\ UNCHANGED <<expressMajor, running>>

\* app.use(express.json()): a body that is not JSON is answered 400 and no
\* route runs.
RejectMalformed(req) ==
    /\ running
    /\ req.sent = "malformed"
    /\ Respond(req, 400, "text", "Bad Request")
    /\ inflight' = inflight (-) SetToBag({req})
    /\ UNCHANGED <<customers, uuidCalls, expressMajor, running>>

\* Mutant: res.json(customers.reverse()), which reverses the array in place.
GetAllReversing(req) ==
    /\ running
    /\ req.method = "GET"
    /\ req.route = "/"
    /\ customers' = [i \in 1..Len(customers) |-> customers[Len(customers) + 1 - i]]
    /\ Respond(req, 200, "json", JsonList(customers'))
    /\ inflight' = inflight (-) SetToBag({req})
    /\ UNCHANGED <<uuidCalls, expressMajor, running>>

\* router.get('/')
GetAll(req) ==
    /\ running
    /\ req.method = "GET"
    /\ req.route = "/"
    /\ Respond(req, 200, "json", JsonList(customers))
    /\ inflight' = inflight (-) SetToBag({req})
    /\ UNCHANGED <<customers, uuidCalls, expressMajor, running>>

\* Mutant: the 201 is sent at once and the push is left to a later callback.
CreateDeferred(req) ==
    /\ running
    /\ req.method = "POST"
    /\ req.route = "/"
    /\ req.sent = "json"
    /\ \E r \in MathRandom :
         LET newCustomer == NewCustomer(req.body, Uuid(uuidCalls + 1), r) IN
           /\ uuidCalls' = uuidCalls + 1
           /\ Respond(req, 201, "json", Json(newCustomer))
    /\ customers' = customers
    /\ inflight' = inflight (-) SetToBag({req})
    /\ UNCHANGED <<expressMajor, running>>

\* Mutant: a body without a name or an email is turned away with a 400.
CreateValidated(req) ==
    /\ running
    /\ req.method = "POST"
    /\ req.route = "/"
    /\ req.sent = "json"
    /\ IF req.body.name \in {Undefined, Val("")} \/ req.body.email \in {Undefined, Val("")}
       THEN /\ Respond(req, 400, "text", "name and email are required")
            /\ UNCHANGED <<customers, uuidCalls>>
       ELSE \E r \in MathRandom :
              LET newCustomer == NewCustomer(req.body, Uuid(uuidCalls + 1), r) IN
                /\ uuidCalls' = uuidCalls + 1
                /\ customers' = Push(customers, newCustomer)
                /\ Respond(req, 201, "json", Json(newCustomer))
    /\ inflight' = inflight (-) SetToBag({req})
    /\ UNCHANGED <<expressMajor, running>>

\* router.post('/'): `const { name, email } = req.body` throws a TypeError
\* when req.body is undefined, before anything else is done.
Create(req) ==
    /\ running
    /\ req.method = "POST"
    /\ req.route = "/"
    /\ req.sent # "malformed"
    /\ IF BodyUndefined(req)
       THEN OnThrow(req)
       ELSE /\ \E r \in MathRandom :
                 LET newCustomer == NewCustomer(req.body, Uuid(uuidCalls + 1), r) IN
                   /\ uuidCalls' = uuidCalls + 1
                   /\ customers' = Push(customers, newCustomer)
                   /\ Respond(req, 201, "json", Json(newCustomer))
            /\ running' = running
    /\ inflight' = inflight (-) SetToBag({req})
    /\ expressMajor' = expressMajor

\* router.get('/:id')
GetOne(req) ==
    /\ running
    /\ req.method = "GET"
    /\ req.route = "/:id"
    /\ LET k == Find(customers, req.id) IN
         IF k # 0
         THEN Respond(req, 200, "json", Json(customers[k]))
         ELSE Respond(req, 404, "text", "Customer not found")
    /\ inflight' = inflight (-) SetToBag({req})
    /\ UNCHANGED <<customers, uuidCalls, expressMajor, running>>

Next ==
    \/ \E req \in Requests : Receive(req)
    \/ \E req \in BagToSet(inflight) : RejectMalformed(req)
    \/ \E req \in BagToSet(inflight) : GetAll(req)
    \/ \E req \in BagToSet(inflight) : Create(req)
    \/ \E req \in BagToSet(inflight) : GetOne(req)

Spec == Init /\ [][Next]_vars

-----------------------------------------------------------------------------
(* The lookup of router.get('/:id') by itself.  Array.prototype.find is a    *)
(* function of the array and the id, so it is tried on every array of        *)
(* records up to MaxStore long, arrays in which an id repeats included, with *)
(* one GET /:id pending.                                                     *)

StoreRecords ==
    [id : {Uuid(1), Uuid(2)}, name : {Val("Test Customer"), Val("")},
     email : {Undefined}, healthScore : {0}]

ArbitraryStores == UNION {[1..n -> StoreRecords] : n \in 0..MaxStore}

FindInit ==
    /\ customers \in ArbitraryStores
    /\ uuidCalls = Len(customers)
    /\ inflight \in {SetToBag({req}) : req \in {q \in Requests : q.route = "/:id"}}
    /\ log = <<>>
    /\ expressMajor \in ExpressMajors
    /\ running = TRUE

FindNext == \E req \in BagToSet(inflight) : GetOne(req)

SpecFind == FindInit /\ [][FindNext]_vars

-----------------------------------------------------------------------------
(* Reading the log *)

IsList(req) == req.method = "GET" /\ req.route = "/"
IsPost(req) == req.method = "POST" /\ req.route = "/"
\* A POST that carries a JSON object.
IsCreate(req) == IsPost(req) /\ req.sent = "json"
IsGetOne(req) == req.method = "GET" /\ req.route = "/:id"

Answered201(e) == IsPost(e.req) /\ e.status = 201

\* The bodies of the 201 responses sent before the k-th response, in order.
RECURSIVE CreatedBefore(_)
CreatedBefore(k) ==
    IF k <= 1 THEN <<>>
    ELSE IF Answered201(log[k - 1])
         THEN Append(CreatedBefore(k - 1), log[k - 1].body)
         ELSE CreatedBefore(k - 1)

CustomerKeys == {"id", "name", "email", "healthScore"}

Last(s) == s[Len(s)]

\* This step ran one handler: it sent the response Last(log').
Handled == Len(log') = Len(log) + 1

IsPrefix(s, t) == Len(s) <= Len(t) /\ \A i \in 1..Len(s) : s[i] = t[i]

\* A step that touches the store or the id generator, or that answers a POST,
\* does all of it: one id drawn, one record appended, that record sent as 201.
CreateStepIsWhole ==
    (customers' # customers \/ uuidCalls' # uuidCalls
       \/ (Handled /\ IsCreate(Last(log').req))) =>
        /\ Handled
        /\ Answered201(Last(log'))
        /\ uuidCalls' = uuidCalls + 1
        /\ Len(customers') = Len(customers) + 1
        /\ IsPrefix(customers, customers')
        /\ Last(log').body = Json(Last(customers'))

\* Every list sent so far is a prefix of the store as it is now, made of
\* complete records, and holds every record whose 201 was sent before it.
ListsAreSnapshots ==
    \A k \in DOMAIN log :
        IsList(log[k].req) =>
            /\ IsPrefix(log[k].body, JsonList(customers))
            /\ \A n \in DOMAIN log[k].body :
                  {"id", "healthScore"} \subseteq DOMAIN log[k].body[n]
            /\ \A j \in 1..(k - 1) :
                  Answered201(log[j]) =>
                     \E n \in DOMAIN log[k].body : log[k].body[n] = log[j].body

-----------------------------------------------------------------------------
(* Properties *)

\* C1: a GET /api/customers handled after exactly N POSTs were answered 201
\* answers 200 with exactly N records, record k being the one the k-th POST
\* returned.
C1_ListIsCreatedInOrder ==
    \A k \in DOMAIN log :
        IsList(log[k].req) =>
            /\ log[k].status = 200
            /\ log[k].type = "json"
            /\ Len(log[k].body) = Len(CreatedBefore(k))
            /\ \A n \in 1..Len(CreatedBefore(k)) : log[k].body[n] = CreatedBefore(k)[n]

C1_Witness ==
    \E k \in DOMAIN log :
        /\ IsList(log[k].req)
        /\ Len(CreatedBefore(k)) >= 2
        /\ log[k].body[1] # log[k].body[2]

\* C2: no two records of the store have the same id.
C2_IdsUnique ==
    \A i, j \in DOMAIN customers : i # j => customers[i].id # customers[j].id

C2_Witness ==
    /\ Len(customers) >= 2
    /\ customers[1].name = customers[2].name
    /\ customers[1].email = customers[2].email
    /\ customers[1].healthScore = customers[2].healthScore

\* C3: a POST whose body carries name n and email e is answered 201 with a
\* Customer record that has a non-empty id, name n and email e.
C3_CreateReturnsRecord ==
    \A k \in DOMAIN log :
        (/\ IsCreate(log[k].req)
         /\ log[k].req.body.name # Undefined
         /\ log[k].req.body.email # Undefined) =>
            /\ log[k].status = 201
            /\ log[k].type = "json"
            /\ DOMAIN log[k].body = CustomerKeys
            /\ log[k].body.id # ""
            /\ log[k].body.name = log[k].req.body.name[1]
            /\ log[k].body.email = log[k].req.body.email[1]

C3_Witness ==
    \E k \in DOMAIN log :
        /\ IsCreate(log[k].req)
        /\ log[k].req.body.name = Val("Test Customer")
        /\ log[k].req.body.email = Val("test@example.com")
        /\ log[k].status = 201
        /\ log[k].body.name = "Test Customer"

\* C4: GET /api/customers/:id with an id that an earlier 201 response
\* returned answers 200 with the record of that response, field by field,
\* whatever was handled in between.
C4_GetOneReturnsCreated ==
    \A j, k \in DOMAIN log :
        (/\ j < k
         /\ Answered201(log[j])
         /\ IsGetOne(log[k].req)
         /\ log[k].req.id = log[j].body.id) =>
            /\ log[k].status = 200
            /\ log[k].type = "json"
            /\ DOMAIN log[k].body = DOMAIN log[j].body
            /\ \A f \in DOMAIN log[j].body : log[k].body[f] = log[j].body[f]

C4_Witness ==
    \E j, k \in DOMAIN log :
        /\ j + 1 < k
        /\ Answered201(log[j])
        /\ Answered201(log[j + 1])
        /\ IsGetOne(log[k].req)
        /\ log[k].req.id = log[j].body.id
        /\ log[k].status = 200

\* C5: GET /api/customers/:id with an id that no record of the store has
\* answers 404 with the plain text "Customer not found" and leaves the store
\* as it is.
C5_AbsentIdIs404 ==
    [][(/\ Handled
        /\ IsGetOne(Last(log').req)
        /\ \A i \in DOMAIN customers : customers[i].id # Last(log').req.id) =>
            /\ Last(log').status = 404
            /\ Last(log').type = "text"
            /\ Last(log').body = "Customer not found"
            /\ customers' = customers]_vars

C5_Witness ==
    /\ Len(customers) >= 1
    /\ \E k \in DOMAIN log :
          /\ k >= 2
          /\ IsGetOne(log[k].req)
          /\ log[k].status = 404
          /\ Answered201(log[k - 1])

\* C6: two POSTs with the same body are each answered 201 with a record of
\* its own: the ids differ, both records are in the store, and the store
\* has grown by one record for every POST handled.
C6_PostNotIdempotent ==
    /\ Len(customers) = Cardinality({k \in DOMAIN log : Answered201(log[k])})
    /\ Len(customers) >= Cardinality({k \in DOMAIN log : IsCreate(log[k].req)})
    /\ \A j, k \in DOMAIN log :
          (/\ j < k
           /\ IsCreate(log[j].req)
           /\ IsCreate(log[k].req)
           /\ log[j].req.body = log[k].req.body) =>
              /\ log[j].status = 201
              /\ log[k].status = 201
              /\ log[j].body.id # log[k].body.id
              /\ \E p, q \in DOMAIN customers :
                    /\ p < q
                    /\ customers[p].id = log[j].body.id
                    /\ customers[q].id = log[k].body.id

C6_Witness ==
    \E j, k \in DOMAIN log :
        /\ j < k
        /\ IsCreate(log[j].req)
        /\ IsCreate(log[k].req)
        /\ log[j].req.body = log[k].req.body
        /\ log[j].req.body.email # Undefined
        /\ Len(customers) = 2

\* C7: the store is append-only: a record at position i stays at position i
\* with the same id, name, email and healthScore in every later state.
C7_AppendOnly ==
    [][/\ Len(customers') >= Len(customers)
       /\ \A i \in DOMAIN customers :
             /\ customers'[i].id = customers[i].id
             /\ customers'[i].name = customers[i].name
             /\ customers'[i].email = customers[i].email
             /\ customers'[i].healthScore = customers[i].healthScore]_vars

C7_Witness ==
    /\ Len(customers) = 3
    /\ customers[1].id # customers[3].id

\* C8: every record of the store, and every record a POST returned, has a
\* healthScore h with 0 <= h < 100 (scores are in units of 1/RandRes).
C8_HealthScoreInRange ==
    /\ \A i \in DOMAIN customers :
          0 <= customers[i].healthScore /\ customers[i].healthScore < 100 * RandRes
    /\ \A k \in DOMAIN log :
          Answered201(log[k]) =>
             0 <= log[k].body.healthScore /\ log[k].body.healthScore < 100 * RandRes

C8_Witness ==
    \E i \in DOMAIN customers :
        /\ customers[i].healthScore = (RandRes - 1) * 100
        /\ \E k \in DOMAIN log :
              Answered201(log[k]) /\ log[k].body.id = customers[i].id

\* C9: whatever the order in which concurrently pending requests are
\* handled, a POST generates its id, appends its record and sends its 201 in
\* one step; every list a GET returned holds complete records only, is a
\* prefix of the store ever after, and holds every record whose 201 was sent
\* before it.
C9_CreateIsAtomic ==
    /\ [][CreateStepIsWhole /\ (Handled => IsPrefix(log, log'))]_vars
    /\ []ListsAreSnapshots

C9_Witness ==
    /\ \E req \in BagToSet(inflight) : IsCreate(req)
    /\ \E k \in DOMAIN log :
          /\ k >= 2
          /\ Answered201(log[k - 1])
          /\ IsList(log[k].req)
          /\ Len(log[k].body) >= 1

\* C10, for the POSTs that carry a JSON object: whatever the object, a
\* missing or empty name or email or an email that is already in the store
\* included, the POST is answered 201 and the store grows by one record.
C10_CreateNeverRejects ==
    [][(Handled /\ IsCreate(Last(log').req)) =>
          /\ Last(log').status = 201
          /\ Len(customers') = Len(customers) + 1]_vars

C10_Witness ==
    /\ Len(customers) = 3
    /\ Len(log) = 3
    /\ log[1].req.body.name = Val("")
    /\ log[2].req.body.email = Undefined
    /\ log[3].req.body.email = log[1].req.body.email
    /\ \A k \in 1..3 : log[k].status = 201

\* C11: a POST with a malformed JSON body is answered 400 by express.json()
\* before the create handler runs: no id is generated and the store is the
\* same after the request as before it.
C11_MalformedIs400 ==
    [][(Handled /\ IsPost(Last(log').req) /\ Last(log').req.sent = "malformed") =>
          /\ Last(log').status = 400
          /\ uuidCalls' = uuidCalls
          /\ customers' = customers]_vars

C11_Witness ==
    \E k \in DOMAIN log :
        /\ k >= 2
        /\ Answered201(log[k - 1])
        /\ IsPost(log[k].req)
        /\ log[k].req.sent = "malformed"
        /\ log[k].status = 400
        /\ Len(customers) = 1

\* C12: an exception thrown inside a handler (the create handler reading
\* name and email from a request body that is undefined) is answered 500;
\* the process stays up and serves the requests that follow, and the failed
\* request leaves the store as it was.
C12_ThrowIs500 ==
    /\ []running
    /\ [][(Handled /\ IsPost(Last(log').req) /\ BodyUndefined(Last(log').req)) =>
             /\ Last(log').status = 500
             /\ customers' = customers]_vars
    /\ [][(\E k \in DOMAIN log : log[k].status = 500) =>
             \A req \in BagToSet(inflight) :
                 ENABLED (GetAll(req) \/ Create(req) \/ GetOne(req) \/ RejectMalformed(req))]_vars

C12_Witness ==
    \E k \in DOMAIN log :
        /\ 2 <= k /\ k < Len(log)
        /\ Answered201(log[k - 1])
        /\ log[k].status = 500
        /\ IsPost(log[k].req) /\ log[k].req.sent = "none"
        /\ log[k + 1].status = 200
        /\ IsList(log[k + 1].req)
        /\ Len(log[k + 1].body) = 1

\* C13: the two reads change nothing: a step that answers GET /api/customers
\* or GET /api/customers/:id, the id present or not, leaves the length of the
\* store and every record of it as they were; a step that changes the store
\* answers a POST /api/customers.
C13_ReadsChangeNothing ==
    [][/\ (Handled /\ (IsList(Last(log').req) \/ IsGetOne(Last(log').req))) =>
            /\ Len(customers') = Len(customers)
            /\ \A i \in DOMAIN customers : customers'[i] = customers[i]
       /\ (customers' # customers) => (Handled /\ IsPost(Last(log').req))]_vars

C13_Witness ==
    /\ Len(log) = 3
    /\ Len(customers) = 2
    /\ customers[1] # customers[2]
    /\ \/ IsList(log[3].req)
       \/ IsGetOne(log[3].req) /\ log[3].status = 200
       \/ IsGetOne(log[3].req) /\ log[3].status = 404

\* The reference lookup: a linear scan from position i, 0 when nothing matches.
RECURSIVE findById(_, _, _)
findById(store, id, i) ==
    IF i > Len(store) THEN 0
    ELSE IF store[i].id = id THEN i
    ELSE findById(store, id, i + 1)

\* C14: for every store and every requested id, GET /api/customers/:id does
\* what the reference findById does: 200 with the first record, in insertion
\* order, whose id is the requested string, 404 if and only if no record has
\* that id, and never an exception (no other status).
C14_LookupIsFindById ==
    [][(Handled /\ IsGetOne(Last(log').req)) =>
          LET k == findById(customers, Last(log').req.id, 1) IN
            /\ Last(log').status \in {200, 404}
            /\ (k = 0) <=> (Last(log').status = 404)
            /\ (k # 0) =>
                 /\ Last(log').type = "json"
                 /\ Last(log').body = Json(customers[k])]_vars

C14_Witness ==
    /\ Len(log) = 1
    /\ Len(customers) = 3
    /\ customers[2].id = customers[3].id
    /\ customers[1].id # customers[2].id
    /\ customers[2].name # customers[3].name
    /\ log[1].req.id = customers[2].id
    /\ log[1].status = 200
    /\ log[1].body = Json(customers[2])

\* C15: the id and the healthScore of a created record are the server's: when
\* the POST body itself carries an id or a healthScore, an id equal to that
\* of a stored record included, the record stored and returned has exactly
\* the fields id, name, email and healthScore, its id is the one uuidv4()
\* has just generated, which no stored record has, and its healthScore is
\* Math.random() * 100.
C15_ServerChoosesIdAndScore ==
    [][(/\ Handled
        /\ IsCreate(Last(log').req)
        /\ \/ Last(log').req.body.id # Undefined
           \/ Last(log').req.body.healthScore # Undefined) =>
          /\ Last(log').status = 201
          /\ DOMAIN Last(log').body \subseteq CustomerKeys
          /\ DOMAIN Last(customers') = CustomerKeys
          /\ Last(log').body = Json(Last(customers'))
          /\ uuidCalls' = uuidCalls + 1
          /\ Last(customers').id = Uuid(uuidCalls')
          /\ \A i \in DOMAIN customers : customers[i].id # Last(customers').id
          /\ \E r \in MathRandom : Last(customers').healthScore = r * 100]_vars

C15_Witness ==
    \E k \in DOMAIN log :
        /\ k >= 2
        /\ Answered201(log[1])
        /\ log[1].body.id = Uuid(1)
        /\ IsCreate(log[k].req)
        /\ log[k].req.body.id = Val(Uuid(1))
        /\ log[k].req.body.healthScore # Undefined
        /\ log[k].status = 201
        /\ log[k].body.id # Uuid(1)

\* A step that sends a response sends it to one pending request, which is
\* pending once less afterwards; every other step leaves the log as it is.
OneResponseEach ==
    /\ Handled =>
         /\ BagIn(Last(log').req, inflight)
         /\ inflight' = inflight (-) SetToBag({Last(log').req})
         /\ IsPrefix(log, log')
    /\ ~Handled => log' = log

\* No step answers two requests, answers one twice or drops one.
ExactlyOneResponse == [][OneResponseEach]_vars

\* C10, as claimed: every POST that reaches the create handler, a POST without
\* a body included, is answered 201 and grows the store by one record.
C10_PostAlwaysSucceeds ==
    [][(Handled /\ IsPost(Last(log').req) /\ Last(log').req.sent # "malformed") =>
          /\ Last(log').status = 201
          /\ Len(customers') = Len(customers) + 1]_vars

\* C16, as claimed: every request routed to one of the three handlers is
\* answered by the handler itself, on every path: 200 for the list, 201 for
\* the create, 200 or 404 for the lookup.
C16_HandlerAnswersEveryPath ==
    \A k \in DOMAIN log :
        /\ IsList(log[k].req) => log[k].status = 200
        /\ (IsPost(log[k].req) /\ log[k].req.sent # "malformed") => log[k].status = 201
        /\ IsGetOne(log[k].req) => log[k].status \in {200, 404}

\* C17: the store is empty when the process starts: as long as no POST has
\* been handled, GET /api/customers answers 200 with an empty array and
\* GET /api/customers/:id answers 404 whatever the id.
C17_EmptyAtStart ==
    \A k \in DOMAIN log :
        (\A j \in 1..(k - 1) : ~IsPost(log[j].req)) =>
            /\ IsList(log[k].req) =>
                 /\ log[k].status = 200
                 /\ log[k].type = "json"
                 /\ Len(log[k].body) = 0
            /\ IsGetOne(log[k].req) =>
                 /\ log[k].status = 404
                 /\ log[k].type = "text"

C17_Witness ==
    /\ customers = <<>>
    /\ Len(log) = 3
    /\ IsList(log[1].req)
    /\ IsGetOne(log[2].req) /\ log[2].req.id = Uuid(1)
    /\ IsGetOne(log[3].req) /\ log[3].req.id = "no-such-id"
    /\ \A k \in 1..3 : log[k].status \in {200, 404}

====
